---- MODULE Spec2Model ----
(***************************************************************************)
(* two-five-one: the timed capture-and-playback engine.                    *)
(*                                                                         *)
(*   index    (src/js/index.js, second module, lines 214-756): transport   *)
(*   record   (src/unnamed/part_003): recorder                             *)
(*   playback (src/unnamed/part_000, lines 112-286): scheduler             *)
(*   midi     (src/unnamed/part_006): message decoding and sending         *)
(*   util     (src/js/util.js): noteListCopy                               *)
(*                                                                         *)
(* Times are JavaScript numbers in milliseconds.  They are modelled as     *)
(* integers; the one non-integer number the code computes, NaN, and the    *)
(* value undefined are encoded as two reserved integers far outside the    *)
(* range the clock can reach, and every arithmetic or comparison on a      *)
(* time goes through the Js* operators below, which give them the          *)
(* ECMAScript meaning.  A property an object does not have (the end of a   *)
(* note that is still sounding) is a missing record field.                 *)
(***************************************************************************)
EXTENDS Integers, Sequences, FiniteSets, TLC

(***************************************************************************)
(* Bounds of the model.                                                    *)
(***************************************************************************)
\* largest time of a note in the inputs of the merge specification
MaxT == 3
\* longest oldNotes / newNotes list in the inputs of the merge specification
MaxOld == 2
MaxNew == 2

(***************************************************************************)
(* JavaScript numbers.                                                     *)
(***************************************************************************)
NaN == 0 - 1000000
Undefined == 0 - 2000000

IsNumber(x) == x # NaN /\ x # Undefined

\* ToNumber(undefined) is NaN
ToNumber(x) == IF x = Undefined THEN NaN ELSE x

JsAdd(a, b) ==
  IF IsNumber(a) /\ IsNumber(b) THEN a + b ELSE NaN

JsSub(a, b) ==
  IF IsNumber(a) /\ IsNumber(b) THEN a - b ELSE NaN

\* every comparison with NaN is false
JsGe(a, b) == IsNumber(a) /\ IsNumber(b) /\ a >= b
JsGt(a, b) == IsNumber(a) /\ IsNumber(b) /\ a > b
JsLe(a, b) == IsNumber(a) /\ IsNumber(b) /\ a <= b
JsLt(a, b) == IsNumber(a) /\ IsNumber(b) /\ a < b

\* Math.min / Math.max return NaN when an argument is NaN
JsMin(a, b) ==
  IF IsNumber(a) /\ IsNumber(b) THEN (IF a <= b THEN a ELSE b) ELSE NaN

JsMax(a, b) ==
  IF IsNumber(a) /\ IsNumber(b) THEN (IF a >= b THEN a ELSE b) ELSE NaN

(***************************************************************************)
(* Notes.  A note object is a record with the fields note (pitch), start,  *)
(* end and velocity.  Where object identity matters, a note object also    *)
(* carries obj, the identity of the JavaScript object, and a list is an    *)
(* array object [arr |-> identity of the array, elems |-> its elements].   *)
(***************************************************************************)
\* the fields of a note object without its identity
NoteVal(n) == [f \in DOMAIN n \ {"obj"} |-> n[f]]

Vals(l) == [i \in 1..Len(l) |-> NoteVal(l[i])]

\* the array object a caller holds: its elements are the caller's objects
ArrayOf(name, l) ==
  [arr |-> name,
   elems |-> [i \in 1..Len(l) |-> [obj |-> <<"own", name, i>>] @@ l[i]]]

RemoveAt(s, i) == [j \in 1..(Len(s) - 1) |-> IF j < i THEN s[j] ELSE s[j + 1]]

InsertAt(s, i, x) ==
  [j \in 1..(Len(s) + 1) |->
     IF j < i THEN s[j] ELSE IF j = i THEN x ELSE s[j - 1]]

\* a faulty variant of noteListCopy: pushes the original objects into the copy
noteListCopyShallow(l) ==
  [arr |-> "copyList", elems |-> l.elems]

\* util.noteListCopy: a new array of JSON copies of the notes
noteListCopy(l) ==
  [arr |-> "copyList",
   elems |-> [i \in 1..Len(l.elems) |->
     [l.elems[i] EXCEPT !.obj = <<"copy", l.elems[i].obj[2], l.elems[i].obj[3]>>]]]

\* a faulty variant of areOverlapping: strict comparisons, touching notes do not overlap
areOverlappingStrict(note1, note2) ==
  /\ note1.note = note2.note
  /\ JsGt(note2.end, note1.start)
  /\ JsGt(note1.end, note2.start)

areOverlapping(note1, note2) ==
  /\ note1.note = note2.note
  /\ JsGe(note2.end, note1.start)
  /\ JsGe(note1.end, note2.start)

\* a faulty variant of the object literal: the end of the absorbed note is dropped
MergedLiteralKeepsNewEnd(mergingNote, mergedNote) ==
  [obj |-> <<"literal", "mergingNote", 0>>,
   note |-> mergingNote.note,
   start |-> JsMin(mergingNote.start, mergedNote.start),
   end |-> mergingNote.end,
   velocity |-> mergingNote.velocity]

\* the object literal of mergeNotes, lines 377-382
MergedLiteral(mergingNote, mergedNote) ==
  [obj |-> <<"literal", "mergingNote", 0>>,
   note |-> mergingNote.note,
   start |-> JsMin(mergingNote.start, mergedNote.start),
   end |-> JsMax(mergingNote.end, mergedNote.end),
   velocity |-> mergingNote.velocity]

\* a faulty variant of the while loop: the scan goes on from where it was instead of
\* restarting at 0 after an absorption
RECURSIVE AbsorbScanNoRestart(_, _, _)
AbsorbScanNoRestart(mergingNote, mergedNotes, merged_i) ==
  IF merged_i > Len(mergedNotes)
  THEN [mergingNote |-> mergingNote, mergedNotes |-> mergedNotes]
  ELSE IF areOverlapping(mergingNote, mergedNotes[merged_i])
       THEN AbsorbScanNoRestart(MergedLiteral(mergingNote, mergedNotes[merged_i]),
                       RemoveAt(mergedNotes, merged_i), merged_i + 1)
       ELSE AbsorbScanNoRestart(mergingNote, mergedNotes, merged_i + 1)

\* the while loop of mergeNotes, lines 373-388: the state is the merging
\* note, the accumulated list and the scan index (1-based here)
RECURSIVE AbsorbScan(_, _, _)
AbsorbScan(mergingNote, mergedNotes, merged_i) ==
  IF merged_i > Len(mergedNotes)
  THEN [mergingNote |-> mergingNote, mergedNotes |-> mergedNotes]
  ELSE IF areOverlapping(mergingNote, mergedNotes[merged_i])
       THEN AbsorbScan(MergedLiteral(mergingNote, mergedNotes[merged_i]),
                       RemoveAt(mergedNotes, merged_i), 1)
       ELSE AbsorbScan(mergingNote, mergedNotes, merged_i + 1)

\* the insertion loop of mergeNotes, lines 389-400
InsertByStart(mergedNotes, mergingNote) ==
  LET later == {i \in 1..Len(mergedNotes) :
                  JsGt(mergedNotes[i].start, mergingNote.start)}
  IN IF later = {}
     THEN Append(mergedNotes, mergingNote)
     ELSE InsertAt(mergedNotes,
                   CHOOSE i \in later : \A j \in later : i <= j,
                   mergingNote)

\* the for loop of mergeNotes over newNotes, lines 371-401
RECURSIVE MergeLoop(_, _, _)
MergeLoop(mergedNotes, newNotes, newNote_i) ==
  IF newNote_i > Len(newNotes)
  THEN mergedNotes
  ELSE LET scan == AbsorbScan(newNotes[newNote_i], mergedNotes, 1)
       IN MergeLoop(InsertByStart(scan.mergedNotes, scan.mergingNote),
                    newNotes, newNote_i + 1)

\* mergeNotes(oldNotes, newNotes) on array objects; the result is the array
\* made by noteListCopy, spliced in place
mergeNotes(oldNotes, newNotes) ==
  LET mergedNotes == noteListCopy(oldNotes)
  IN [arr |-> mergedNotes.arr,
      elems |-> MergeLoop(mergedNotes.elems, newNotes.elems, 1)]

(***************************************************************************)
(* The Note List invariant of the data model.                              *)
(***************************************************************************)
AscendingByStart(l) ==
  \A i \in 1..(Len(l) - 1) : l[i].start <= l[i + 1].start

\* closed intervals of two notes of one pitch intersect or touch
Touch(a, b) ==
  a.note = b.note /\ ~(a.end < b.start \/ b.end < a.start)

NoSamePitchOverlap(l) ==
  \A i \in 1..Len(l) : \A j \in 1..Len(l) : i # j => ~Touch(l[i], l[j])

PositiveLength(l) == \A i \in 1..Len(l) : l[i].end > l[i].start

(***************************************************************************)
(* State.                                                                  *)
(***************************************************************************)
VARIABLES
  now,               \* performance.now(), ms
  selIn,             \* the MIDI input chosen in the "inputs" select
  selOut,            \* whether a MIDI output is chosen in the "outputs" select
  inputDone,         \* the one input event of this instant has been handled
  notes,             \* index: globals.notes, the canonical note list
  time,              \* index: globals.time, the cursor
  audioBuffer,       \* index: globals.audioBuffer, its duration in ms
  recNotes,          \* record.notes
  isRecording,       \* record.isRecording
  hangingNotes,      \* record: globals.hangingNotes, pitch -> index (from 1)
  recStartTime,      \* record: globals.startTime
  recMidiInput,      \* record: globals.midiInput
  listeners,         \* the inputs onMidiInputMessage is attached to
  isPlaying,         \* playback.isPlaying
  pbNotes,           \* playback: globals.notes
  pbShared,          \* playback's globals.notes is index's globals.notes array
  playbackIndex,     \* playback: globals.playbackIndex (from 0, as in the code)
  startPlaybackTime, \* playback: globals.startPlaybackTime
  endPlaybackTime,   \* playback: globals.endPlaybackTime
  stopCallback,      \* playback: globals.stopCallback
  timers,            \* the registered setInterval timers, each with its due time
  playbackIntervalId,\* playback: globals.playbackIntervalId
  bufferSource,      \* playback: globals.bufferSource
  midiOut,           \* playback: globals.midiOut
  sent,              \* the midi.sendNote calls of the latest handler, in order
  emitted,           \* the notes handed to the MIDI output since the last play()
  playedFrom,        \* the startTime argument of the last play()
  playedAudio,       \* the audioBuffer argument of the last play(), ms
  playedCallback,    \* the stopCallback argument of the last play()
  cbCalls,           \* stop callback invocations made by the latest handler
  threw,             \* the latest handler ended in an uncaught TypeError
  retNum,            \* the number the latest recorder/scheduler call returned
  retList,           \* the list the latest record.stop() returned
  lastCall,          \* the latest recorder or scheduler call made from outside
  events,            \* the MIDI events handled since the last record.start
  mOld,              \* merge specification: the oldNotes argument
  mNew,              \* merge specification: the newNotes argument
  mOut,              \* merge specification: the array object mergeNotes returned
  mDone              \* merge specification: mergeNotes has been applied

mergeVars == <<mOld, mNew, mOut, mDone>>

envVars == <<now, selIn, selOut, inputDone>>

indexVars == <<notes, time, audioBuffer>>

recordVars ==
  <<recNotes, isRecording, hangingNotes, recStartTime, recMidiInput, listeners>>

playbackVars ==
  <<isPlaying, pbNotes, pbShared, playbackIndex, startPlaybackTime,
    endPlaybackTime, stopCallback, timers, playbackIntervalId, bufferSource,
    midiOut>>

outVars ==
  <<sent, emitted, playedFrom, playedAudio, playedCallback, cbCalls, threw,
    retNum, retList, lastCall, events>>

vars == <<envVars, indexVars, recordVars, playbackVars, outVars, mergeVars>>

\* the program state as one record, so that a handler is a function of it
World ==
  [now |-> now, selIn |-> selIn, selOut |-> selOut,
   notes |-> notes, time |-> time, audioBuffer |-> audioBuffer,
   recNotes |-> recNotes, isRecording |-> isRecording,
   hangingNotes |-> hangingNotes, recStartTime |-> recStartTime,
   recMidiInput |-> recMidiInput, listeners |-> listeners,
   isPlaying |-> isPlaying, pbNotes |-> pbNotes, pbShared |-> pbShared,
   playbackIndex |-> playbackIndex, startPlaybackTime |-> startPlaybackTime,
   endPlaybackTime |-> endPlaybackTime, stopCallback |-> stopCallback,
   timers |-> timers, playbackIntervalId |-> playbackIntervalId,
   bufferSource |-> bufferSource, midiOut |-> midiOut,
   sent |-> sent, emitted |-> emitted, playedFrom |-> playedFrom,
   playedAudio |-> playedAudio, playedCallback |-> playedCallback,
   cbCalls |-> cbCalls, threw |-> threw,
   retNum |-> retNum, retList |-> retList, lastCall |-> lastCall,
   events |-> events]

\* the state a handler starts from: its own outputs are empty
Enter(call) ==
  [World EXCEPT !.sent = <<>>, !.cbCalls = 0, !.threw = FALSE,
                !.retNum = Undefined, !.retList = <<>>, !.lastCall = call]

\* the state a handler leaves
Leave(w) ==
  /\ now' = w.now /\ selIn' = w.selIn /\ selOut' = w.selOut
  /\ notes' = w.notes /\ time' = w.time /\ audioBuffer' = w.audioBuffer
  /\ recNotes' = w.recNotes /\ isRecording' = w.isRecording
  /\ hangingNotes' = w.hangingNotes /\ recStartTime' = w.recStartTime
  /\ recMidiInput' = w.recMidiInput /\ listeners' = w.listeners
  /\ isPlaying' = w.isPlaying /\ pbNotes' = w.pbNotes
  /\ pbShared' = w.pbShared /\ playbackIndex' = w.playbackIndex
  /\ startPlaybackTime' = w.startPlaybackTime
  /\ endPlaybackTime' = w.endPlaybackTime /\ stopCallback' = w.stopCallback
  /\ timers' = w.timers /\ playbackIntervalId' = w.playbackIntervalId
  /\ bufferSource' = w.bufferSource /\ midiOut' = w.midiOut
  /\ sent' = w.sent /\ emitted' = w.emitted /\ playedFrom' = w.playedFrom
  /\ playedAudio' = w.playedAudio /\ playedCallback' = w.playedCallback
  /\ cbCalls' = w.cbCalls
  /\ threw' = w.threw /\ retNum' = w.retNum /\ retList' = w.retList
  /\ lastCall' = w.lastCall /\ events' = w.events

(***************************************************************************)
(* The pitches of the model: two keys of the controller.                   *)
(***************************************************************************)
Pitches == {60, 62}

(***************************************************************************)
(* midi: message decoding.  A message is <<status, pitch, velocity>>,      *)
(* indexed from 1.                                                         *)
(***************************************************************************)
NOTE_ON_START == 9
NOTE_OFF_START == 8

\* statusByte >> 4
HighNibble(statusByte) == statusByte \div 16

\* a faulty variant of isNoteOnMessage: the velocity byte is not looked at
isNoteOnMessageAnyVelocity(midiMsg) ==
  HighNibble(midiMsg[1]) = NOTE_ON_START

isNoteOnMessage(midiMsg) ==
  IF HighNibble(midiMsg[1]) = NOTE_ON_START THEN midiMsg[3] # 0 ELSE FALSE

isNoteOffMessage(midiMsg) ==
  IF HighNibble(midiMsg[1]) = NOTE_OFF_START
  THEN TRUE
  ELSE IF HighNibble(midiMsg[1]) = NOTE_ON_START THEN midiMsg[3] = 0 ELSE FALSE

getVelocityFromNoteMessage(midiMsg) == midiMsg[3]

getNoteFromNoteMessage(midiMsg) == midiMsg[2]

(***************************************************************************)
(* record: the recorder.                                                   *)
(***************************************************************************)
\* no MIDIInput object: what inputs.get gives for an unknown key, and the
\* initial globals.midiInput
NoInput == "undefined"

Inputs == {"in1", "in2"}

\* obj.end = e on a note object
SetEnd(noteObj, e) ==
  [note |-> noteObj.note, start |-> noteObj.start,
   velocity |-> noteObj.velocity, end |-> e]

\* delete globals.hangingNotes[noteValue]
DeleteKey(map, key) == [k \in DOMAIN map \ {key} |-> map[k]]

\* globals.hangingNotes[noteValue] = i
SetKey(map, key, i) ==
  [k \in DOMAIN map \cup {key} |-> IF k = key THEN i ELSE map[k]]

\* onMidiInputMessage, lines 40-46: push returns the new length, and the
\* index of the pushed note (length - 1 in the code) is its position here
NoteOnBranch(w, midiEvent) ==
  LET noteValue == getNoteFromNoteMessage(midiEvent.data)
  IN [w EXCEPT
       !.recNotes = Append(w.recNotes,
          [note |-> noteValue,
           start |-> JsSub(midiEvent.timeStamp, ToNumber(w.recStartTime)),
           velocity |-> getVelocityFromNoteMessage(midiEvent.data)]),
       !.hangingNotes = SetKey(w.hangingNotes, noteValue, Len(w.recNotes) + 1)]

\* a faulty variant of the Note-Off branch: a Note-Off without a hanging note
\* is an error
NoteOffBranchStrict(w, midiEvent) ==
  LET noteValue == getNoteFromNoteMessage(midiEvent.data)
  IN IF noteValue \notin DOMAIN w.hangingNotes
     THEN [w EXCEPT !.threw = TRUE]
     ELSE LET noteI == w.hangingNotes[noteValue]
          IN IF noteI > Len(w.recNotes)
             THEN [w EXCEPT !.threw = TRUE]
             ELSE [w EXCEPT
                    !.recNotes[noteI] =
                       SetEnd(w.recNotes[noteI],
                              JsSub(midiEvent.timeStamp, ToNumber(w.recStartTime))),
                    !.hangingNotes = DeleteKey(w.hangingNotes, noteValue)]

\* onMidiInputMessage, lines 47-55: record.notes[noteI] is undefined when the
\* index is not in the list, and assigning its end is then a TypeError
NoteOffBranch(w, midiEvent) ==
  LET noteValue == getNoteFromNoteMessage(midiEvent.data)
  IN IF noteValue \notin DOMAIN w.hangingNotes
     THEN w
     ELSE LET noteI == w.hangingNotes[noteValue]
          IN IF noteI > Len(w.recNotes)
             THEN [w EXCEPT !.threw = TRUE]
             ELSE [w EXCEPT
                    !.recNotes[noteI] =
                       SetEnd(w.recNotes[noteI],
                              JsSub(midiEvent.timeStamp, ToNumber(w.recStartTime))),
                    !.hangingNotes = DeleteKey(w.hangingNotes, noteValue)]

onMidiInputMessage(w, midiEvent) ==
  IF w.isRecording
  THEN IF isNoteOnMessage(midiEvent.data)
       THEN NoteOnBranch(w, midiEvent)
       ELSE IF isNoteOffMessage(midiEvent.data)
            THEN NoteOffBranch(w, midiEvent)
            ELSE w
  ELSE w

\* what record.start returns: the function has no return statement
RecordStartResult(startTime) == Undefined

\* a faulty variant of record.start: the handler stays on the previous input
recordStartNoDetach(w, midiInput) ==
  LET rebind == midiInput # w.recMidiInput
  IN IF rebind /\ midiInput = NoInput
     THEN [w EXCEPT !.threw = TRUE]
     ELSE [w EXCEPT
            !.listeners = IF rebind THEN @ \cup {midiInput} ELSE @,
            !.recMidiInput = midiInput,
            !.recStartTime = w.now,
            !.recNotes = <<>>,
            !.isRecording = TRUE,
            !.retNum = RecordStartResult(w.now)]

\* record.start(midiInput); midiInput.addEventListener is a TypeError when
\* midiInput is undefined
recordStart(w, midiInput) ==
  LET rebind == midiInput # w.recMidiInput
      detached == IF w.recMidiInput # NoInput
                  THEN w.listeners \ {w.recMidiInput}
                  ELSE w.listeners
  IN IF rebind /\ midiInput = NoInput
     THEN [w EXCEPT !.listeners = detached, !.threw = TRUE]
     ELSE [w EXCEPT
            !.listeners = IF rebind THEN detached \cup {midiInput} ELSE @,
            !.recMidiInput = midiInput,
            !.recStartTime = w.now,
            !.recNotes = <<>>,
            !.isRecording = TRUE,
            !.retNum = RecordStartResult(w.now)]

\* the for-in loop of record.stop, lines 87-91: keys in ascending order;
\* record.notes[i] is undefined when i is not in the list
RECURSIVE CloseHanging(_, _)
CloseHanging(w, end) ==
  IF DOMAIN w.hangingNotes = {}
  THEN w
  ELSE LET noteValue == CHOOSE k \in DOMAIN w.hangingNotes :
                          \A k2 \in DOMAIN w.hangingNotes : k <= k2
           noteI == w.hangingNotes[noteValue]
       IN IF noteI > Len(w.recNotes)
          THEN [w EXCEPT !.threw = TRUE]
          ELSE CloseHanging(
                 [w EXCEPT !.recNotes[noteI] = SetEnd(w.recNotes[noteI], end),
                           !.hangingNotes = DeleteKey(w.hangingNotes, noteValue)],
                 end)

\* a faulty variant of the not-recording branch: it clears the working list as well
recordStopIdleClears(w) == [w EXCEPT !.recNotes = <<>>, !.retList = <<>>]

\* record.stop(), lines 93-95: not recording
recordStopIdle(w) == [w EXCEPT !.retList = <<>>]

\* record.stop()
recordStop(w) ==
  LET end == JsSub(w.now, ToNumber(w.recStartTime))
  IN IF w.isRecording
     THEN LET closed == CloseHanging([w EXCEPT !.isRecording = FALSE], end)
          IN IF closed.threw
             THEN closed
             ELSE [closed EXCEPT
                    !.retList = Vals(noteListCopy(ArrayOf("record.notes", closed.recNotes)).elems)]
     ELSE recordStopIdle(w)

(***************************************************************************)
(* midi: sending.  A send is the call midiOutput.send(bytes, time).        *)
(***************************************************************************)
\* (NOTE_ON_START << 4) | channel
StatusByte(start, channel) == start * 16 + channel

sendNoteOn(args) ==
  [bytes |-> <<StatusByte(NOTE_ON_START, args.channel), args.note, args.velocity>>,
   time |-> args.time]

sendNoteOff(args) ==
  [bytes |-> <<StatusByte(NOTE_OFF_START, args.channel), args.note, 0>>,
   time |-> args.time]

\* a faulty variant of midi.sendNote: the Note-Off is scheduled at the onTime
sendNoteOffAtOnTime(args) ==
  <<sendNoteOn([note |-> args.note, time |-> args.onTime,
                velocity |-> args.velocity, channel |-> 0]),
    sendNoteOff([note |-> args.note, time |-> args.onTime, channel |-> 0])>>

\* midi.sendNote: the two sends, in order, on channel 0
sendNote(args) ==
  <<sendNoteOn([note |-> args.note, time |-> args.onTime,
                velocity |-> args.velocity, channel |-> 0]),
    sendNoteOff([note |-> args.note, time |-> args.offTime, channel |-> 0])>>

(***************************************************************************)
(* playback: the scheduler.                                                *)
(***************************************************************************)
PLAYBACK_INTERVAL == 25
PLAYBACK_LOOKAHEAD == 100
SYNC_PAD == 50

NoCallback == "undefined"

\* util.getMaxTime: the latest end of the notes, 0 for no note
RECURSIVE getMaxTime(_)
getMaxTime(l) ==
  IF Len(l) = 0 THEN 0
  ELSE JsMax(getMaxTime(SubSeq(l, 1, Len(l) - 1)), ToNumber(l[Len(l)].end))

playbackGetTime(w) ==
  IF w.isPlaying THEN JsSub(w.now, ToNumber(w.startPlaybackTime)) ELSE 0

\* the stop callback a session was started with: the closure of onPressPlay
\* (index.js lines 483-487) resets the cursor; any other callback is only
\* counted
RunStopCallback(w) ==
  IF w.stopCallback = "onPressPlay.stopCallback"
  THEN [w EXCEPT !.time = 0, !.cbCalls = @ + 1]
  ELSE [w EXCEPT !.cbCalls = @ + 1]

\* a faulty variant of playback.stop: the interval is not cleared
playbackStopKeepsTimer(w) ==
  LET stopTime == playbackGetTime(w)
  IN IF w.isPlaying
     THEN LET stopped ==
                [w EXCEPT
                  !.bufferSource = IF @ = "undefined" THEN @ ELSE "stopped",
                  !.isPlaying = FALSE,
                  !.playbackIndex = 0]
              called == IF w.stopCallback # NoCallback
                        THEN RunStopCallback(stopped)
                        ELSE stopped
          IN [called EXCEPT !.retNum = stopTime]
     ELSE [w EXCEPT !.retNum = stopTime]

\* playback.stop()
playbackStop(w) ==
  LET stopTime == playbackGetTime(w)
  IN IF w.isPlaying
     THEN LET stopped ==
                [w EXCEPT
                  !.timers = {t \in @ : t.id # w.playbackIntervalId},
                  !.bufferSource = IF @ = "undefined" THEN @ ELSE "stopped",
                  !.isPlaying = FALSE,
                  !.playbackIndex = 0]
              called == IF w.stopCallback # NoCallback
                        THEN RunStopCallback(stopped)
                        ELSE stopped
          IN [called EXCEPT !.retNum = stopTime]
     ELSE [w EXCEPT !.retNum = stopTime]

\* a faulty variant of the horizon test: the lookahead is not added
WithinSectionNoLookahead(noteObj, sectionEndTime) ==
  JsLe(noteObj.start, JsSub(sectionEndTime, PLAYBACK_LOOKAHEAD))

\* schedulePlaybackSection, line 186
WithinSection(noteObj, sectionEndTime) ==
  JsLe(noteObj.start, sectionEndTime)

\* a faulty variant of the while loop: the session is stopped as soon as the
\* list is exhausted
RECURSIVE SectionLoopStopsAtEnd(_, _, _, _)
SectionLoopStopsAtEnd(w, currentTime, sectionEndTime, maxIndex) ==
  IF w.playbackIndex >= maxIndex
  THEN playbackStop(w)
  ELSE LET noteObj == w.pbNotes[w.playbackIndex + 1]
       IN IF WithinSection(noteObj, sectionEndTime)
          THEN SectionLoopStopsAtEnd(
                 [w EXCEPT
                   !.sent = @ \o sendNote(
                      [note |-> noteObj.note,
                       onTime |-> JsAdd(w.startPlaybackTime, noteObj.start),
                       offTime |-> JsAdd(w.startPlaybackTime, noteObj.end),
                       velocity |-> noteObj.velocity]),
                   !.emitted = @ \cup {noteObj},
                   !.playbackIndex = @ + 1],
                 currentTime, sectionEndTime, maxIndex)
          ELSE w

\* the while loop of schedulePlaybackSection, lines 178-199
RECURSIVE SectionLoop(_, _, _, _)
SectionLoop(w, currentTime, sectionEndTime, maxIndex) ==
  IF w.playbackIndex >= maxIndex
  THEN IF JsLe(w.endPlaybackTime, currentTime) THEN playbackStop(w) ELSE w
  ELSE LET noteObj == w.pbNotes[w.playbackIndex + 1]
       IN IF WithinSection(noteObj, sectionEndTime)
          THEN SectionLoop(
                 [w EXCEPT
                   !.sent = @ \o sendNote(
                      [note |-> noteObj.note,
                       onTime |-> JsAdd(w.startPlaybackTime, noteObj.start),
                       offTime |-> JsAdd(w.startPlaybackTime, noteObj.end),
                       velocity |-> noteObj.velocity]),
                   !.emitted = @ \cup {noteObj},
                   !.playbackIndex = @ + 1],
                 currentTime, sectionEndTime, maxIndex)
          ELSE w

schedulePlaybackSection(w) ==
  LET currentTime == w.now
      currentPlaybackTime == JsSub(currentTime, ToNumber(w.startPlaybackTime))
      sectionEndTime == JsAdd(currentPlaybackTime, PLAYBACK_LOOKAHEAD)
  IN SectionLoop(w, currentTime, sectionEndTime, Len(w.pbNotes))

\* the id setInterval returns: one no registered timer has
FreshTimerId(w) ==
  CHOOSE id \in 1..(Cardinality(w.timers) + 1) :
    \A t \in w.timers : t.id # id

\* a faulty variant of the for loop of playback.play: a note that starts at
\* startTime is passed over
FirstIndexAfter(l, startTime) ==
  LET remaining == {i \in 1..Len(l) : JsGt(l[i].start, startTime)}
  IN IF remaining = {}
     THEN Len(l)
     ELSE (CHOOSE i \in remaining : \A j \in remaining : i <= j) - 1

\* the index the for loop of playback.play finds, lines 235-246
FirstIndexFrom(l, startTime) ==
  LET remaining == {i \in 1..Len(l) : JsGe(l[i].start, startTime)}
  IN IF remaining = {}
     THEN Len(l)
     ELSE (CHOOSE i \in remaining : \A j \in remaining : i <= j) - 1

\* a faulty variant of playback.play: a call without a stop callback leaves the
\* callback of the session before registered
playbackPlayKeepsCallback(w, args) ==
  LET idle == IF w.isPlaying THEN playbackStop(w) ELSE w
      maxTime == getMaxTime(args.notes)
      startPlayback == JsAdd(JsSub(w.now, args.startTime), SYNC_PAD)
      hasAudio == args.audioBuffer # Undefined
      id == FreshTimerId(idle)
  IN [idle EXCEPT
       !.isPlaying = TRUE,
       !.midiOut = args.midiOut,
       !.pbNotes = args.notes,
       !.pbShared = args.shared,
       !.playbackIndex = FirstIndexFrom(args.notes, args.startTime),
       !.startPlaybackTime = startPlayback,
       !.bufferSource = IF hasAudio THEN "started" ELSE @,
       !.timers = @ \cup {[id |-> id, due |-> w.now + PLAYBACK_INTERVAL]},
       !.playbackIntervalId = id,
       !.endPlaybackTime =
          JsAdd(startPlayback,
                IF hasAudio THEN JsMax(maxTime, args.audioBuffer) ELSE maxTime),
       !.stopCallback =
          IF args.stopCallback = NoCallback THEN @ ELSE args.stopCallback,
       !.emitted = {},
       !.playedFrom = args.startTime,
       !.playedAudio = args.audioBuffer,
       !.playedCallback = args.stopCallback,
       !.retNum = w.now + SYNC_PAD]

\* a faulty variant of playback.play: the origin is not padded by SYNC_PAD
playbackPlayNoSyncPad(w, args) ==
  LET idle == IF w.isPlaying THEN playbackStop(w) ELSE w
      maxTime == getMaxTime(args.notes)
      startPlayback == JsSub(w.now, args.startTime)
      hasAudio == args.audioBuffer # Undefined
      id == FreshTimerId(idle)
  IN [idle EXCEPT
       !.isPlaying = TRUE,
       !.midiOut = args.midiOut,
       !.pbNotes = args.notes,
       !.pbShared = args.shared,
       !.playbackIndex = FirstIndexFrom(args.notes, args.startTime),
       !.startPlaybackTime = startPlayback,
       !.bufferSource = IF hasAudio THEN "started" ELSE @,
       !.timers = @ \cup {[id |-> id, due |-> w.now + PLAYBACK_INTERVAL]},
       !.playbackIntervalId = id,
       !.endPlaybackTime =
          JsAdd(startPlayback,
                IF hasAudio THEN JsMax(maxTime, args.audioBuffer) ELSE maxTime),
       !.stopCallback = args.stopCallback,
       !.emitted = {},
       !.playedFrom = args.startTime,
       !.playedAudio = args.audioBuffer,
       !.playedCallback = args.stopCallback,
       !.retNum = w.now + SYNC_PAD]

\* a faulty variant of playback.play: a running session is not stopped first
playbackPlayNoStop(w, args) ==
  LET idle == w
      maxTime == getMaxTime(args.notes)
      startPlayback == JsAdd(JsSub(w.now, args.startTime), SYNC_PAD)
      hasAudio == args.audioBuffer # Undefined
      id == FreshTimerId(idle)
  IN [idle EXCEPT
       !.isPlaying = TRUE,
       !.midiOut = args.midiOut,
       !.pbNotes = args.notes,
       !.pbShared = args.shared,
       !.playbackIndex = FirstIndexFrom(args.notes, args.startTime),
       !.startPlaybackTime = startPlayback,
       !.bufferSource = IF hasAudio THEN "started" ELSE @,
       !.timers = @ \cup {[id |-> id, due |-> w.now + PLAYBACK_INTERVAL]},
       !.playbackIntervalId = id,
       !.endPlaybackTime =
          JsAdd(startPlayback,
                IF hasAudio THEN JsMax(maxTime, args.audioBuffer) ELSE maxTime),
       !.stopCallback = args.stopCallback,
       !.emitted = {},
       !.playedFrom = args.startTime,
       !.playedAudio = args.audioBuffer,
       !.playedCallback = args.stopCallback,
       !.retNum = w.now + SYNC_PAD]

\* playback.play(args); args.shared says that args.notes is the array
\* index's globals.notes refers to
playbackPlay(w, args) ==
  LET idle == IF w.isPlaying THEN playbackStop(w) ELSE w
      maxTime == getMaxTime(args.notes)
      startPlayback == JsAdd(JsSub(w.now, args.startTime), SYNC_PAD)
      hasAudio == args.audioBuffer # Undefined
      id == FreshTimerId(idle)
  IN [idle EXCEPT
       !.isPlaying = TRUE,
       !.midiOut = args.midiOut,
       !.pbNotes = args.notes,
       !.pbShared = args.shared,
       !.playbackIndex = FirstIndexFrom(args.notes, args.startTime),
       !.startPlaybackTime = startPlayback,
       !.bufferSource = IF hasAudio THEN "started" ELSE @,
       !.timers = @ \cup {[id |-> id, due |-> w.now + PLAYBACK_INTERVAL]},
       !.playbackIntervalId = id,
       !.endPlaybackTime =
          JsAdd(startPlayback,
                IF hasAudio THEN JsMax(maxTime, args.audioBuffer) ELSE maxTime),
       !.stopCallback = args.stopCallback,
       !.emitted = {},
       !.playedFrom = args.startTime,
       !.playedAudio = args.audioBuffer,
       !.playedCallback = args.stopCallback,
       !.retNum = w.now + SYNC_PAD]

(***************************************************************************)
(* index: the transport.                                                   *)
(***************************************************************************)
\* a faulty variant of onPressPause: the position playback.stop returns is dropped
onPressPauseDropsPosition(w) ==
  IF w.isPlaying THEN playbackStop(w) ELSE w

\* onPressPause
onPressPause(w) ==
  IF w.isPlaying
  THEN LET stopped == playbackStop(w)
       IN [stopped EXCEPT !.time = stopped.retNum]
  ELSE w

\* a faulty variant of onPressPauseKeepSpot: the saved cursor is not written back
onPressPauseKeepSpotForgets(w) ==
  IF w.isPlaying THEN playbackStop(w) ELSE w

\* onPressPauseKeepSpot
onPressPauseKeepSpot(w) ==
  IF w.isPlaying
  THEN [playbackStop(w) EXCEPT !.time = w.time]
  ELSE w

\* the arguments of the playback.play call of onPressRecord, lines 332-337
RecordPlayArgs(w) ==
  [notes |-> <<>>, shared |-> FALSE, midiOut |-> "undefined",
   startTime |-> w.time, audioBuffer |-> w.audioBuffer,
   stopCallback |-> NoCallback]

\* a faulty variant of onPressRecord: playback keeps running while recording
onPressRecordKeepsPlayback(w) ==
  LET started == recordStart(w, w.selIn)
  IN IF started.threw
     THEN started
     ELSE [started EXCEPT
            !.time = JsAdd(@, JsSub(ToNumber(started.retNum),
                                    started.now + SYNC_PAD))]

\* a faulty variant of onPressRecord: a running session is not paused first,
\* so the cursor handed to playback.play is the one playback started from
onPressRecordNoPause(w) ==
  LET started == recordStart(w, w.selIn)
  IN IF started.threw
     THEN started
     ELSE LET recordStartTime == started.retNum
              session == playbackPlay(started, RecordPlayArgs(started))
              playbackStartTime == session.retNum
          IN [session EXCEPT
               !.time = JsAdd(@, JsSub(ToNumber(recordStartTime),
                                       playbackStartTime))]

\* onPressRecord; a TypeError in record.start ends the handler
onPressRecord(w) ==
  LET paused == IF w.isPlaying THEN onPressPause(w) ELSE w
      started == recordStart(paused, paused.selIn)
  IN IF started.threw
     THEN started
     ELSE LET recordStartTime == started.retNum
              session == playbackPlay(started, RecordPlayArgs(started))
              playbackStartTime == session.retNum
          IN [session EXCEPT
               !.time = JsAdd(@, JsSub(ToNumber(recordStartTime),
                                       playbackStartTime))]

\* note.start += globals.time; note.end += globals.time (a note without an
\* end gets NaN)
ShiftedBy(l, t) ==
  [i \in 1..Len(l) |->
     [note |-> l[i].note,
      start |-> JsAdd(l[i].start, t),
      end |-> JsAdd(IF "end" \in DOMAIN l[i] THEN l[i].end ELSE NaN, t),
      velocity |-> l[i].velocity]]

\* mergeNotes on the values of two lists; the result is a new array
MergedList(oldNotes, newNotes) ==
  Vals(mergeNotes(ArrayOf("oldNotes", oldNotes),
                  ArrayOf("newNotes", newNotes)).elems)

\* onPressStopRecord; a TypeError in record.stop ends the handler
onPressStopRecord(w) ==
  LET stoppedRec ==
        IF w.isRecording
        THEN LET r == recordStop(w)
             IN IF r.threw
                THEN r
                ELSE [r EXCEPT
                       !.notes = MergedList(r.notes, ShiftedBy(r.retList, r.time)),
                       !.pbShared = FALSE,
                       !.time = JsMax(0, r.time)]
        ELSE w
  IN IF stoppedRec.threw
     THEN stoppedRec
     ELSE IF stoppedRec.isPlaying THEN playbackStop(stoppedRec) ELSE stoppedRec

\* a faulty variant of onPressStopPlay: the cursor is not reset
onPressStopPlayKeepsCursor(w) == playbackStop(w)

\* onPressStopPlay
onPressStopPlay(w) == [playbackStop(w) EXCEPT !.time = 0]

\* onPressClear
onPressClear(w) ==
  [onPressStopPlay(w) EXCEPT !.notes = <<>>, !.pbShared = FALSE]

\* the arguments of the playback.play call of onPressPlay, lines 477-488
PlayArgs(w) ==
  [notes |-> w.notes, shared |-> TRUE, midiOut |-> "out",
   startTime |-> w.time, audioBuffer |-> w.audioBuffer,
   stopCallback |-> "onPressPlay.stopCallback"]

\* a faulty variant of onPressPlay: a running recording is left running
onPressPlayKeepsRecording(w) ==
  IF w.isPlaying
  THEN w
  ELSE IF ~w.selOut THEN w ELSE playbackPlay(w, PlayArgs(w))

\* onPressPlay
onPressPlay(w) ==
  IF w.isPlaying
  THEN w
  ELSE LET idle == IF w.isRecording THEN onPressStopRecord(w) ELSE w
       IN IF idle.threw
          THEN idle
          ELSE IF ~idle.selOut
               THEN idle
               ELSE playbackPlay(idle, PlayArgs(idle))

\* noteEquals: !== on each property (NaN is not equal to itself)
noteEquals(note1, note2) ==
  \A f \in {"start", "end", "note", "velocity"} :
    IsNumber(note1[f]) /\ note1[f] = note2[f]

\* onDeleteNote: the first equal note is spliced out of the array, which the
\* scheduler may be reading
onDeleteNote(w, note) ==
  LET found == {i \in 1..Len(w.notes) : noteEquals(note, w.notes[i])}
  IN IF found = {}
     THEN w
     ELSE LET i == CHOOSE k \in found : \A j \in found : k <= j
          IN [w EXCEPT !.notes = RemoveAt(@, i),
                       !.pbNotes = IF w.pbShared THEN RemoveAt(@, i) ELSE @]

\* a faulty variant of onSetTime: the seek is not guarded
onSetTimeAlways(w, t) == [w EXCEPT !.time = t]

\* onSetTime
onSetTime(w, t) ==
  IF ~(w.isRecording \/ w.isPlaying) THEN [w EXCEPT !.time = t] ELSE w

\* togglePlayPause
togglePlayPause(w) ==
  IF w.isPlaying THEN onPressPause(w) ELSE onPressPlay(w)

\* togglePlayPauseKeepSpot
togglePlayPauseKeepSpot(w) ==
  IF w.isPlaying THEN onPressPauseKeepSpot(w) ELSE onPressPlay(w)

\* onUpdateNote: the note is spliced out of the array in place, then the
\* list is replaced by the merge; index counts from 1 here
onUpdateNote(w, index, note) ==
  LET spliced == RemoveAt(w.notes, index)
  IN [w EXCEPT !.notes = MergedList(spliced, <<note>>),
               !.pbNotes = IF w.pbShared THEN RemoveAt(@, index) ELSE @,
               !.pbShared = FALSE]

\* onPressClearAudio
onPressClearAudio(w) ==
  [(IF w.isPlaying THEN playbackStop(w) ELSE w) EXCEPT !.audioBuffer = Undefined]

\* the decodeAudioData callback of onPressLoadAudio, lines 291-295
onAudioDecoded(w, duration) == [w EXCEPT !.audioBuffer = duration]

(***************************************************************************)
(* onPressLoadNotes: a file is the parsed JSON, a list of objects; a       *)
(* property may be missing or hold a value that is not a number.           *)
(***************************************************************************)
NotANumberValue == 0 - 3000000

Prop(obj, prop) == IF prop \in DOMAIN obj THEN obj[prop] ELSE Undefined

\* the loop over props, lines 559-577
PropsOk(obj) ==
  \A prop \in {"start", "end", "note", "velocity"} :
    /\ prop \in DOMAIN obj
    /\ obj[prop] # NotANumberValue
    /\ ~(obj[prop] < 0)

\* areOverlapping on parsed objects: a missing or non-number property
\* compares false
RawNote(obj) ==
  [note |-> Prop(obj, "note"),
   start |-> IF Prop(obj, "start") = NotANumberValue THEN NaN ELSE Prop(obj, "start"),
   end |-> IF Prop(obj, "end") = NotANumberValue THEN NaN ELSE Prop(obj, "end"),
   velocity |-> Prop(obj, "velocity")]

\* a faulty variant of the noteloop body: the notes after note i are not
\* compared with it
NoteLoopPassesNoOverlapCheck(file, i) ==
  /\ PropsOk(file[i])
  /\ ~(file[i].end <= file[i].start)
  /\ ~(i > 1 /\ JsLt(file[i].start, RawNote(file[i - 1]).start))

\* one pass of the noteloop body for note i passes every check
NoteLoopPasses(file, i) ==
  /\ PropsOk(file[i])
  /\ ~(file[i].end <= file[i].start)
  /\ ~(i > 1 /\ JsLt(file[i].start, RawNote(file[i - 1]).start))
  /\ \A j \in (i + 1)..Len(file) :
       ~areOverlapping(RawNote(file[i]), RawNote(file[j]))

\* the status is still "Loading..." after the loop
LoadAccepted(file) == \A i \in 1..Len(file) : NoteLoopPasses(file, i)

\* the reader.onload callback of onPressLoadNotes
onNotesFileRead(w, file) ==
  IF LoadAccepted(file)
  THEN [w EXCEPT !.notes = [i \in 1..Len(file) |-> RawNote(file[i])],
                 !.pbShared = FALSE]
  ELSE w

(***************************************************************************)
(* Bounds and inputs of the transport and component specifications.        *)
(***************************************************************************)
\* the clock of the transport and of the scheduler advances MaxClockSteps
\* times
MaxClockSteps == 3
\* most notes of one recording of the transport
MaxRecNotes == 2
\* most notes the canonical list and a running recording hold together
MaxNotes == 3
\* most notes of one recording in the recorder specification
MaxRecorded == 2
\* most MIDI events of one recording in the recorder specification
MaxEvents == 2
\* the clock of the recorder specification advances MaxRecClockSteps times
MaxRecClockSteps == 1

\* the clock advances by one timer period at a time
ClockStep == PLAYBACK_INTERVAL

\* status bytes: Note-Off, Note-On, Control Change, on channel 0
StatusBytes == {128, 144, 176}

MidiVelocities == {0, 90}

MidiMessages ==
  {<<status, pitch, velocity>> :
     status \in StatusBytes, pitch \in Pitches, velocity \in MidiVelocities}

\* the messages of the recorder specification: a key pressed, a key released
\* in either encoding, and a controller moved
KeyMessages ==
  {<<144, pitch, 90>> : pitch \in Pitches}
  \cup {<<144, pitch, 0>> : pitch \in Pitches}
  \cup {<<128, pitch, 0>> : pitch \in Pitches}
  \cup {<<176, 60, 90>>}

SeekTimes == {0, 100}

AudioDurations == {200}

NoteA == [note |-> 60, start |-> 0, end |-> 50, velocity |-> 40]
NoteB == [note |-> 62, start |-> 100, end |-> 125, velocity |-> 40]

\* the note files a user loads: two valid lists, and a list for each way a
\* file can be wrong: out of order, a note without its end, a start that is
\* not a number, a negative velocity, an end that is not after the start, two
\* notes of a pitch that overlap and two that touch
NoteFiles ==
  {<<NoteA, NoteB>>,
   <<[note |-> 60, start |-> 100, end |-> 125, velocity |-> 40]>>,
   <<NoteB, NoteA>>,
   <<[note |-> 60, start |-> 0, velocity |-> 40]>>,
   <<[note |-> 60, start |-> NotANumberValue, end |-> 50, velocity |-> 40]>>,
   <<[note |-> 60, start |-> 0, end |-> 50, velocity |-> 0 - 1]>>,
   <<[note |-> 60, start |-> 50, end |-> 50, velocity |-> 40]>>,
   <<[note |-> 60, start |-> 0, end |-> 125, velocity |-> 40],
     [note |-> 60, start |-> 100, end |-> 150, velocity |-> 40]>>,
   <<NoteA, [note |-> 60, start |-> 50, end |-> 125, velocity |-> 40]>>}

\* a note that still sounds at the later seek time
NoteLong == [note |-> 60, start |-> 0, end |-> 125, velocity |-> 40]

\* the lists handed to playback.play in the component specification
PlayLists == {<<>>, <<NoteA>>, <<NoteA, NoteB>>, <<NoteLong, NoteB>>}

\* the audio handed to playback.play in the component specification: none,
\* or a buffer of 125 ms
PlayAudio == {Undefined, 125}

\* the notes the display can hand to onDeleteNote and edit for onUpdateNote:
\* those it can draw
Clickable(l) ==
  {i \in 1..Len(l) : IsNumber(l[i].start) /\ IsNumber(l[i].end)}

Shifts == {0 - 25, 25}

\* the edits of the display: a note dragged in time and pitch, or an edge
\* dragged with the other kept
EditsOf(n) ==
  {[n EXCEPT !.start = n.start + dt, !.end = n.end + dt, !.note = p] :
     dt \in Shifts, p \in Pitches}
  \cup {[n EXCEPT !.end = n.end + dt] : dt \in {d \in Shifts : n.end + d > n.start}}
  \cup {[n EXCEPT !.start = n.start + dt] : dt \in {d \in Shifts : n.start + d < n.end}}

\* no call has been made yet: the state the modules are loaded with
Idle ==
  /\ now = 0 /\ selIn = "in1" /\ selOut = TRUE /\ inputDone = FALSE
  /\ notes = <<>> /\ time = 0 /\ audioBuffer = Undefined
  /\ recNotes = <<>> /\ isRecording = FALSE /\ hangingNotes = <<>>
  /\ recStartTime = Undefined /\ recMidiInput = NoInput /\ listeners = {}
  /\ isPlaying = FALSE /\ pbNotes = <<>> /\ pbShared = FALSE
  /\ playbackIndex = 0 /\ startPlaybackTime = Undefined
  /\ endPlaybackTime = Undefined /\ stopCallback = NoCallback
  /\ timers = {} /\ playbackIntervalId = 0 /\ bufferSource = "undefined"
  /\ midiOut = "undefined"
  /\ sent = <<>> /\ emitted = {} /\ playedFrom = Undefined
  /\ playedAudio = Undefined /\ playedCallback = NoCallback
  /\ cbCalls = 0 /\ threw = FALSE
  /\ retNum = Undefined /\ retList = <<>> /\ lastCall = "none"
  /\ events = <<>>

\* no merge is being looked at
MergeIdle ==
  /\ mOld = <<>>
  /\ mNew = <<>>
  /\ mOut = [arr |-> "none", elems |-> <<>>]
  /\ mDone = FALSE

Init == Idle /\ MergeIdle

(***************************************************************************)
(* Steps of the environment: the clock, the timer, the MIDI input.         *)
(***************************************************************************)
\* a handler of index has run: the values its calls returned are gone, and
\* no call was made to the recorder or the scheduler from outside
Handled(w) ==
  /\ Leave([w EXCEPT !.retNum = Undefined, !.retList = <<>>,
                     !.lastCall = lastCall])
  /\ UNCHANGED <<inputDone, mergeVars>>

\* an input event, a click, a key press or a MIDI message, has been handled.
\* One input event is dispatched in an instant of the clock: no two of them
\* carry the same performance.now()
InputHandled(w) ==
  /\ inputDone' = TRUE
  /\ Leave([w EXCEPT !.retNum = Undefined, !.retList = <<>>,
                     !.lastCall = lastCall])
  /\ UNCHANGED mergeVars

Advance ==
  /\ now < MaxClockSteps * ClockStep
  /\ now' = now + ClockStep
  /\ inputDone' = FALSE
  /\ UNCHANGED <<selIn, selOut, indexVars, recordVars, playbackVars, outVars,
                 mergeVars>>

\* a registered interval timer fires schedulePlaybackSection and, if it is
\* still registered, is due again one interval later
Tick ==
  \E t \in timers :
    /\ now >= t.due
    /\ LET w == schedulePlaybackSection(Enter("tick"))
       IN Handled([w EXCEPT
            !.timers = {IF x.id = t.id
                        THEN [x EXCEPT !.due = now + PLAYBACK_INTERVAL]
                        ELSE x : x \in w.timers}])

\* an input the handler is attached to delivers a message, stamped now
MidiEvent ==
  \E src \in listeners : \E msg \in KeyMessages :
    /\ ~inputDone
    /\ (isRecording /\ isNoteOnMessage(msg)) =>
         (Len(recNotes) < MaxRecNotes /\ Len(notes) + Len(recNotes) < MaxNotes)
    /\ InputHandled(onMidiInputMessage(Enter("midi"), [data |-> msg, timeStamp |-> now]))

(***************************************************************************)
(* The transport specification: the handlers of index.                     *)
(***************************************************************************)
SelectInput ==
  /\ ~inputDone
  /\ inputDone' = TRUE
  /\ \E i \in {"in1", NoInput} : selIn' = i
  /\ UNCHANGED <<now, selOut, indexVars, recordVars, playbackVars, outVars,
                 mergeVars>>

SelectOutput ==
  /\ ~inputDone
  /\ inputDone' = TRUE
  /\ selOut' \in BOOLEAN
  /\ UNCHANGED <<now, selIn, indexVars, recordVars, playbackVars, outVars,
                 mergeVars>>

PressRecord ==
  /\ ~inputDone
  /\ InputHandled(onPressRecord(Enter("index")))

PressStopRecord ==
  /\ ~inputDone
  /\ InputHandled(onPressStopRecord(Enter("index")))

PressStopPlay ==
  /\ ~inputDone
  /\ InputHandled(onPressStopPlay(Enter("index")))

PressClear ==
  /\ ~inputDone
  /\ InputHandled(onPressClear(Enter("index")))

PressPlay ==
  /\ ~inputDone
  /\ InputHandled(onPressPlay(Enter("index")))

PressPause ==
  /\ ~inputDone
  /\ InputHandled(onPressPause(Enter("index")))

PressPauseKeepSpot ==
  /\ ~inputDone
  /\ InputHandled(onPressPauseKeepSpot(Enter("index")))

TogglePlayPause ==
  /\ ~inputDone
  /\ InputHandled(togglePlayPause(Enter("index")))

TogglePlayPauseKeepSpot ==
  /\ ~inputDone
  /\ InputHandled(togglePlayPauseKeepSpot(Enter("index")))

DeleteNote ==
  /\ ~inputDone
  /\ \E i \in Clickable(notes) :
       InputHandled(onDeleteNote(Enter("index"), notes[i]))

UpdateNote ==
  /\ ~inputDone
  /\ \E i \in Clickable(notes) : \E note \in EditsOf(notes[i]) :
       InputHandled(onUpdateNote(Enter("index"), i, note))

SetTime ==
  /\ ~inputDone
  /\ \E t \in SeekTimes :
       InputHandled(onSetTime(Enter("index"), t))

LoadNotes ==
  \E file \in NoteFiles :
    /\ ~inputDone
    /\ Len(file) + Len(recNotes) <= MaxNotes
    /\ InputHandled(onNotesFileRead(Enter("index"), file))

LoadAudio ==
  /\ ~inputDone
  /\ \E d \in AudioDurations :
       InputHandled(onAudioDecoded(Enter("index"), d))

ClearAudio ==
  /\ ~inputDone
  /\ InputHandled(onPressClearAudio(Enter("index")))

Next ==
  \/ Advance
  \/ Tick
  \/ MidiEvent
  \/ SelectInput
  \/ SelectOutput
  \/ PressRecord
  \/ PressStopRecord
  \/ PressStopPlay
  \/ PressClear
  \/ PressPlay
  \/ PressPause
  \/ PressPauseKeepSpot
  \/ TogglePlayPause
  \/ TogglePlayPauseKeepSpot
  \/ DeleteNote
  \/ UpdateNote
  \/ SetTime
  \/ LoadNotes
  \/ LoadAudio
  \/ ClearAudio

Spec == Init /\ [][Next]_vars

(***************************************************************************)
(* The recorder specification: record called directly, in any order, with  *)
(* the MIDI events of the recording kept.                                  *)
(***************************************************************************)
\* a call made from outside leaves its return value in retNum or retList
RecAdvance ==
  /\ now < MaxRecClockSteps * ClockStep
  /\ now' = now + ClockStep
  /\ inputDone' = FALSE
  /\ UNCHANGED <<selIn, selOut, indexVars, recordVars, playbackVars, outVars,
                 mergeVars>>

RecordStart ==
  \E midiInput \in Inputs :
    /\ Leave([recordStart(Enter("record.start"), midiInput)
               EXCEPT !.events = <<>>])
    /\ UNCHANGED <<inputDone, mergeVars>>

RecordStop ==
  /\ Leave(recordStop(Enter("record.stop")))
  /\ UNCHANGED <<inputDone, mergeVars>>

RecMidiEvent ==
  \E src \in listeners : \E msg \in KeyMessages :
    /\ isRecording
    /\ Len(events) < MaxEvents
    /\ isNoteOnMessage(msg) => Len(recNotes) < MaxRecorded
    /\ LET midiEvent == [data |-> msg, timeStamp |-> now]
       IN Leave([onMidiInputMessage(Enter("midi"), midiEvent)
                  EXCEPT !.events = Append(@, midiEvent)])
    /\ UNCHANGED <<inputDone, mergeVars>>

NextRecord ==
  \/ RecAdvance
  \/ RecMidiEvent
  \/ RecordStart
  \/ RecordStop

SpecRecord == Init /\ [][NextRecord]_vars

(***************************************************************************)
(* The scheduler specification: playback called directly, in any order.    *)
(***************************************************************************)
PlaybackPlay ==
  \E l \in PlayLists : \E startTime \in SeekTimes :
    \E cb \in {NoCallback, "callback"} : \E audio \in PlayAudio :
      /\ Leave(playbackPlay(Enter("playback.play"),
                 [notes |-> l, shared |-> FALSE, midiOut |-> "out",
                  startTime |-> startTime, audioBuffer |-> audio,
                  stopCallback |-> cb]))
      /\ UNCHANGED <<inputDone, mergeVars>>

PlaybackStop ==
  /\ Leave(playbackStop(Enter("playback.stop")))
  /\ UNCHANGED <<inputDone, mergeVars>>

PlaybackTick ==
  \E t \in timers :
    /\ now >= t.due
    /\ LET w == schedulePlaybackSection(Enter("tick"))
       IN Leave([w EXCEPT
            !.timers = {IF x.id = t.id
                        THEN [x EXCEPT !.due = now + PLAYBACK_INTERVAL]
                        ELSE x : x \in w.timers}])
    /\ UNCHANGED <<inputDone, mergeVars>>

NextPlayback ==
  \/ Advance
  \/ PlaybackTick
  \/ PlaybackPlay
  \/ PlaybackStop

SpecPlayback == Init /\ [][NextPlayback]_vars

(***************************************************************************)
(* The component specification: a client of the recorder or a client of    *)
(* the scheduler.  record and playback share no state, so the two          *)
(* components are exercised one at a time.                                 *)
(***************************************************************************)
\* playback.play has never been called
NeverPlayed == startPlaybackTime = Undefined

\* record.start has never been called
NeverRecorded == recStartTime = Undefined

NextComponents ==
  \/ NeverPlayed /\ RecAdvance
  \/ NeverPlayed /\ RecMidiEvent
  \/ NeverPlayed /\ RecordStart
  \/ NeverPlayed /\ RecordStop
  \/ NeverRecorded /\ Advance
  \/ NeverRecorded /\ PlaybackTick
  \/ NeverRecorded /\ PlaybackPlay
  \/ NeverRecorded /\ PlaybackStop

SpecComponents == Init /\ [][NextComponents]_vars


(***************************************************************************)
(* The unattended-playback specification: the user sets the transport up   *)
(* during the first instants and then leaves it alone; the clock advances  *)
(* and every interval timer fires when it is due.                          *)
(***************************************************************************)
\* the user acts during the first MaxLiveSetupSteps instants
MaxLiveSetupSteps == 3
\* the clock value is kept up to MaxLiveClockSteps steps; from there on time
\* is counted from a later zero
MaxLiveClockSteps == 5

\* the user may act: no Play session has been started and it is early
LiveSetup ==
  /\ stopCallback # "onPressPlay.stopCallback"
  /\ now < MaxLiveSetupSteps * ClockStep

\* a time stamp after the zero of the clock was moved one step later
Rebased(t) == IF IsNumber(t) THEN t - ClockStep ELSE t

\* time passes by one step, once no timer is due.  The scheduler uses clock
\* values only in differences and comparisons of time stamps, so beyond
\* MaxLiveClockSteps the step is taken by moving the zero of the clock: the
\* time stamps of the running session are lowered instead of now being raised
LiveAdvance ==
  /\ \A t \in timers : t.due > now
  /\ inputDone' = FALSE
  /\ IF now < MaxLiveClockSteps * ClockStep
     THEN /\ now' = now + ClockStep
          /\ UNCHANGED <<timers, startPlaybackTime, endPlaybackTime>>
     ELSE /\ now' = now
          /\ timers' = {[t EXCEPT !.due = @ - ClockStep] : t \in timers}
          /\ startPlaybackTime' =
               IF isPlaying THEN Rebased(startPlaybackTime) ELSE startPlaybackTime
          /\ endPlaybackTime' =
               IF isPlaying THEN Rebased(endPlaybackTime) ELSE endPlaybackTime
  /\ UNCHANGED <<selIn, selOut, indexVars, recordVars, outVars, mergeVars,
                 isPlaying, pbNotes, pbShared, playbackIndex, stopCallback,
                 playbackIntervalId, bufferSource, midiOut>>

NextLive ==
  \/ LiveAdvance
  \/ Tick
  \/ LiveSetup /\ LoadNotes
  \/ LiveSetup /\ LoadAudio
  \/ LiveSetup /\ SetTime
  \/ LiveSetup /\ PressRecord
  \/ LiveSetup /\ PressStopRecord
  \/ LiveSetup /\ PressPlay

\* the clock keeps advancing and a due timer fires
SpecLive ==
  Init /\ [][NextLive]_vars /\ WF_vars(LiveAdvance) /\ WF_vars(Tick)
(***************************************************************************)
(* The punctual scheduler specification: the scheduler called directly,    *)
(* with every interval timer firing at the instant it is due, so that the  *)
(* ticks of a session are PLAYBACK_INTERVAL apart.                         *)
(***************************************************************************)
\* the clock passes an instant only when the timer due at it has fired
PunctualAdvance ==
  /\ \A t \in timers : t.due > now
  /\ Advance

NextPunctual ==
  \/ PunctualAdvance
  \/ PlaybackTick
  \/ PlaybackPlay
  \/ PlaybackStop

SpecPunctual == Init /\ [][NextPunctual]_vars

(***************************************************************************)
(* The merge specification: mergeNotes applied to every pair of valid note *)
(* lists within the bounds.                                                *)
(***************************************************************************)
\* the velocity is copied and never compared: the old notes carry one value
\* and the new notes another, so that the result shows whose velocity it is
OldVelocities == {40}
NewVelocities == {90}

InputNotes(velocities) ==
  {n \in [note : Pitches, start : 0..MaxT, end : 0..MaxT, velocity : velocities] :
     n.end > n.start}

ValidLists(maxLen, velocities) ==
  UNION {{l \in [1..k -> InputNotes(velocities)] :
            AscendingByStart(l) /\ NoSamePitchOverlap(l)} : k \in 0..maxLen}

InitMerge ==
  /\ Idle
  /\ mOld \in ValidLists(MaxOld, OldVelocities)
  /\ mNew \in ValidLists(MaxNew, NewVelocities)
  /\ mOut = [arr |-> "none", elems |-> <<>>]
  /\ mDone = FALSE

\* a caller holding the arrays oldNotes and newNotes calls mergeNotes
ApplyMerge ==
  /\ ~mDone
  /\ mOut' = mergeNotes(ArrayOf("oldNotes", mOld), ArrayOf("newNotes", mNew))
  /\ mDone' = TRUE
  /\ UNCHANGED <<mOld, mNew, envVars, indexVars, recordVars, playbackVars,
                 outVars>>

NextMerge == ApplyMerge

SpecMerge == InitMerge /\ [][NextMerge]_vars

(***************************************************************************)
(* Properties of mergeNotes (specification SpecMerge).                     *)
(***************************************************************************)
MergedVals == Vals(mOut.elems)

\* C1: for valid oldNotes and newNotes, the list mergeNotes returns is
\* ascending by start and holds no two notes of one pitch whose closed
\* intervals intersect or touch.
C1_MergeKeepsInvariant ==
  mDone => AscendingByStart(MergedVals) /\ NoSamePitchOverlap(MergedVals)

\* C1 witness: a merge of two-note lists in which a new note bridged two old
\* notes of its pitch, so that three notes became one.
C1_Witness ==
  /\ mDone
  /\ Len(mOld) = 2 /\ Len(mNew) = 2
  /\ Len(MergedVals) = 2
  /\ \E i \in 1..2 : mOld[1].end < mNew[i].end /\ mNew[i].start < mOld[2].start
                     /\ mOld[1].note = mNew[i].note /\ mOld[2].note = mNew[i].note
                     /\ mOld[1].end >= mNew[i].start /\ mNew[i].end >= mOld[2].start

\* C6: mergeNotes([a],[b]) is the one note [min start, max end] with b's
\* velocity when a and b have one pitch and a.end >= b.start and
\* b.end >= a.start, and otherwise both notes unchanged, ordered by start.
C6_MergeOfSingletons ==
  (mDone /\ Len(mOld) = 1 /\ Len(mNew) = 1) =>
    LET a == mOld[1]
        b == mNew[1]
    IN IF a.note = b.note /\ a.end >= b.start /\ b.end >= a.start
       THEN MergedVals =
              <<[note |-> b.note,
                 start |-> IF a.start <= b.start THEN a.start ELSE b.start,
                 end |-> IF a.end >= b.end THEN a.end ELSE b.end,
                 velocity |-> b.velocity]>>
       ELSE /\ MergedVals \in {<<a, b>>, <<b, a>>}
            /\ AscendingByStart(MergedVals)

\* C6 witness: two notes of one pitch that only touch (a ends where b starts)
\* and came out as one note.
C6_Witness ==
  /\ mDone /\ Len(mOld) = 1 /\ Len(mNew) = 1
  /\ mOld[1].note = mNew[1].note
  /\ mOld[1].end = mNew[1].start
  /\ Len(MergedVals) = 1

\* C7: mergeNotes(notes, []) equals notes element by element, and neither
\* the returned array nor any of its note objects is an object of the input.
C7_MergeWithEmptyIsFreshCopy ==
  (mDone /\ mNew = <<>>) =>
    /\ MergedVals = mOld
    /\ mOut.arr # ArrayOf("oldNotes", mOld).arr
    /\ \A i \in 1..Len(mOut.elems) : \A j \in 1..Len(mOld) :
         mOut.elems[i].obj # ArrayOf("oldNotes", mOld).elems[j].obj

\* C7 witness: the merge of a two-note list with the empty list.
C7_Witness ==
  mDone /\ mNew = <<>> /\ Len(mOld) = 2 /\ Len(mOut.elems) = 2

(***************************************************************************)
(* Properties of the transport, the recorder and the scheduler.            *)
(***************************************************************************)
\* a note that lies on the timeline: it has an end, and start and end are
\* numbers
FiniteNote(n) ==
  /\ "end" \in DOMAIN n
  /\ IsNumber(n.start)
  /\ IsNumber(n.end)

NoteListInvariant(l) ==
  /\ \A i \in 1..Len(l) : FiniteNote(l[i])
  /\ PositiveLength(l)
  /\ AscendingByStart(l)
  /\ NoSamePitchOverlap(l)

\* C2: in every state of the transport the canonical note list satisfies the
\* Note List invariant: every note has end > start, the notes ascend by
\* start, and no two notes of one pitch overlap or touch.
C2_CanonicalListInvariant == NoteListInvariant(notes)

\* C3, as stated: isRecording and isPlaying are never both true.
C3_NeverRecordingAndPlaying == ~(isRecording /\ isPlaying)

\* C3, amended: while a recording is in progress the only scheduler session
\* that can be active is the one Record itself starts, which has an empty
\* note list, no stop callback and no MIDI output; a session that plays notes
\* never coexists with a recording.
C3_OnlyRecordSessionWhileRecording ==
  (isRecording /\ isPlaying) =>
    (pbNotes = <<>> /\ stopCallback = NoCallback /\ midiOut = "undefined")

\* Record was pressed with notes in the canonical list: the recording and
\* its own session run together
C3_Witness == isRecording /\ isPlaying /\ notes # <<>> /\ pbNotes = <<>>

\* the step in which record.stop() ends a recording
StopsRecording == isRecording /\ ~isRecording'

\* the number of Note-On events among the first k events of the recording
NoteOnsUpTo(k) ==
  Cardinality({i \in 1..k : isNoteOnMessage(events[i].data)})

IsKeyEvent(e, pitch) ==
  /\ isNoteOnMessage(e.data) \/ isNoteOffMessage(e.data)
  /\ getNoteFromNoteMessage(e.data) = pitch

\* the presses of the recording: a Note-On at i and the next Note-Off of its
\* pitch at j, with no event of that pitch between them
Presses ==
  {ij \in (1..Len(events)) \X (1..Len(events)) :
     /\ ij[1] < ij[2]
     /\ isNoteOnMessage(events[ij[1]].data)
     /\ isNoteOffMessage(events[ij[2]].data)
     /\ IsKeyEvent(events[ij[2]], getNoteFromNoteMessage(events[ij[1]].data))
     /\ \A k \in (ij[1] + 1)..(ij[2] - 1) :
          ~IsKeyEvent(events[k], getNoteFromNoteMessage(events[ij[1]].data))}

\* C4: a Note-On for a pitch at t1 followed by the next Note-Off for that
\* pitch at t2 yields exactly one note for that press in the list stop()
\* returns, with start = t1 - startTime, end = t2 - startTime and the pitch
\* and velocity of the Note-On.
C4_PressYieldsOneNote ==
  [][StopsRecording =>
       \A ij \in Presses :
         LET on == events[ij[1]]
             off == events[ij[2]]
             k == NoteOnsUpTo(ij[1])
         IN /\ Len(retList') = NoteOnsUpTo(Len(events))
            /\ retList'[k] =
                 [note |-> getNoteFromNoteMessage(on.data),
                  velocity |-> getVelocityFromNoteMessage(on.data),
                  start |-> on.timeStamp - recStartTime,
                  end |-> off.timeStamp - recStartTime]]_vars

\* C5: stop() closes every note still hanging with end = stop instant -
\* startTime and returns a list in which every note has an end; after
\* stop() the hanging-note map is empty.
C5_StopClosesHangingNotes ==
  [][StopsRecording =>
       /\ hangingNotes' = <<>>
       /\ Len(retList') = Len(recNotes)
       /\ \A k \in 1..Len(retList') : "end" \in DOMAIN retList'[k]
       /\ \A k \in 1..Len(recNotes) :
            "end" \notin DOMAIN recNotes[k] =>
              /\ "end" \in DOMAIN retList'[k]
              /\ retList'[k].end = now - recStartTime]_vars

\* the playback time up to which a tick emits
Horizon ==
  JsAdd(JsSub(now, ToNumber(startPlaybackTime)), PLAYBACK_LOOKAHEAD)

WithinHorizon(n) == JsLe(n.start, Horizon)

\* C8, as stated: a tick emits only notes with start <= (now - originTime)
\* + 100, and every not-yet-emitted note whose start is within that horizon
\* is emitted by the tick.
C8_EveryNoteWithinHorizonEmitted ==
  [][Tick =>
       /\ \A n \in emitted' \ emitted : WithinHorizon(n)
       /\ \A i \in 1..Len(pbNotes) :
            (pbNotes[i] \notin emitted /\ WithinHorizon(pbNotes[i])) =>
              pbNotes[i] \in emitted']_vars

\* the first position from the scheduling index on whose note is beyond the
\* horizon; with no such note, the position after the last note, or after
\* the scheduling index when notes were deleted behind it
FirstBeyondHorizon ==
  LET beyond == {k \in (playbackIndex + 1)..Len(pbNotes) :
                   ~WithinHorizon(pbNotes[k])}
  IN IF beyond = {}
     THEN IF playbackIndex > Len(pbNotes)
          THEN playbackIndex + 1
          ELSE Len(pbNotes) + 1
     ELSE CHOOSE k \in beyond : \A m \in beyond : k <= m

\* C8, amended: a tick emits only notes with start <= (now - originTime) +
\* 100, and it emits exactly the notes from the scheduling index up to, and
\* not including, the first note whose start is beyond that horizon; notes
\* before the scheduling index are not emitted, within the horizon or not.
C8_EmitsRunWithinHorizon ==
  [][Tick =>
       /\ \A n \in emitted' \ emitted : WithinHorizon(n)
       /\ \A k \in (playbackIndex + 1)..(FirstBeyondHorizon - 1) :
            pbNotes[k] \in emitted'
       /\ Len(sent') = 2 * (FirstBeyondHorizon - 1 - playbackIndex)
       /\ isPlaying' => playbackIndex' = FirstBeyondHorizon - 1]_vars

\* a tick has emitted the first note of a list and left the second, whose
\* start is beyond the horizon
C8_Witness ==
  /\ isPlaying
  /\ Len(sent) = 2
  /\ playbackIndex = 1
  /\ Len(pbNotes) = 2
  /\ ~WithinHorizon(pbNotes[2])

\* C9: record.stop() called when not recording returns the empty list and
\* changes no state; playback.stop() called when not playing returns 0,
\* changes no state and runs no stop callback; a second call starts from
\* the same state and so behaves as the first.
C9_StopWhenIdleChangesNothing ==
  [][/\ (RecordStop /\ ~isRecording) =>
          /\ retList' = <<>>
          /\ ~threw'
          /\ UNCHANGED <<now, indexVars, recordVars, playbackVars>>
     /\ (PlaybackStop /\ ~isPlaying) =>
          /\ retNum' = 0
          /\ cbCalls' = 0
          /\ ~threw'
          /\ UNCHANGED <<now, indexVars, recordVars, playbackVars>>]_vars

\* record.stop() has been called after a recording that holds notes had
\* already been stopped
C9_Witness ==
  /\ lastCall = "record.stop"
  /\ ~isRecording
  /\ ~threw
  /\ retList = <<>>
  /\ recNotes # <<>>

\* the list record.stop() hands to onPressStopRecord in this state
RecordedNow == recordStop(Enter("index")).retList

\* C10: after stop-record the canonical list is mergeNotes(previous list,
\* recorded notes shifted by the cursor), so the sounding time of every
\* recorded note lies on the timeline at the cursor's offset, inside a note
\* of its pitch: two recordings of one pitch over intersecting ranges leave
\* one note.
C10_StopRecordMergesAtCursor ==
  [][(PressStopRecord /\ isRecording) =>
       /\ notes' = MergedList(notes, ShiftedBy(RecordedNow, time))
       /\ \A k \in 1..Len(RecordedNow) :
            FiniteNote(RecordedNow[k]) =>
              \E m \in 1..Len(notes') :
                /\ FiniteNote(notes'[m])
                /\ notes'[m].note = RecordedNow[k].note
                /\ notes'[m].start <= RecordedNow[k].start + time
                /\ RecordedNow[k].end + time <= notes'[m].end]_vars


(***************************************************************************)
(* Properties of the transport controls.                                   *)
(***************************************************************************)
\* C11: Pause while playing stops playback and leaves the cursor at the
\* position the scheduler's stop returned, now - startPlaybackTime at the
\* moment of the call, not at the 0 the stop callback wrote; Pause while not
\* playing leaves the cursor unchanged.
C11_PauseAdoptsStopPosition ==
  [][PressPause =>
       IF isPlaying
       THEN /\ ~isPlaying'
            /\ time' = JsSub(now, ToNumber(startPlaybackTime))
       ELSE time' = time]_vars

\* a Play session has just been paused: its stop callback ran, and the cursor
\* is the position of the pause, neither 0 nor the value playback started from
C11_Witness ==
  /\ inputDone
  /\ ~isPlaying
  /\ stopCallback = "onPressPlay.stopCallback"
  /\ cbCalls = 1
  /\ time = JsSub(now, ToNumber(startPlaybackTime))
  /\ time # 0
  /\ time # playedFrom

\* C12 as stated: Pause-keep-spot while playing stops playback and leaves the
\* cursor at the value it had before the call, which is the value playback
\* was started from.
C12_KeepSpotKeepsStartValue ==
  [][(PressPauseKeepSpot /\ isPlaying) =>
       /\ ~isPlaying'
       /\ time' = time
       /\ time' = playedFrom]_vars

\* C12 amended: Pause-keep-spot while playing stops playback and leaves the
\* cursor at the value it had before the call; for a session started by Play
\* that is the value playback was started from.
C12_KeepSpotKeepsCursor ==
  [][(PressPauseKeepSpot /\ isPlaying) =>
       /\ ~isPlaying'
       /\ time' = time
       /\ (stopCallback = "onPressPlay.stopCallback") => (time' = playedFrom)]_vars

\* a Play session started from a cursor other than 0 has just been stopped
\* with the cursor kept: the stop callback ran, the cursor is not 0 and not
\* the position of the stop
C12_Witness ==
  /\ inputDone
  /\ ~isPlaying
  /\ stopCallback = "onPressPlay.stopCallback"
  /\ cbCalls = 1
  /\ time = playedFrom
  /\ time # 0
  /\ time # JsSub(now, ToNumber(startPlaybackTime))

\* C13: Stop in any transport state leaves the scheduler not playing and the
\* cursor at 0, and does not change the canonical note list.
C13_StopResetsCursor ==
  [][PressStopPlay => (~isPlaying' /\ time' = 0 /\ notes' = notes)]_vars

\* Stop has been pressed one instant into a recording: the session of the
\* recording is gone and the cursor, which was not 0, is 0
C13_Witness ==
  /\ inputDone
  /\ now = ClockStep
  /\ isRecording
  /\ ~isPlaying
  /\ timers = {}
  /\ time = 0
  /\ playedFrom = 0

\* C14: a seek request sets the cursor to the requested time when neither
\* recording nor playing; while a recording or a playback session is active
\* it leaves the cursor, the note list and both activity flags unchanged.
C14_SeekOnlyWhenIdle ==
  [][\A t \in SeekTimes :
       (~inputDone /\ InputHandled(onSetTime(Enter("index"), t))) =>
         IF ~(isRecording \/ isPlaying)
         THEN time' = t /\ UNCHANGED <<notes, isRecording, isPlaying>>
         ELSE UNCHANGED <<time, notes, isRecording, isPlaying>>]_vars

\* the first input event is a seek to a time other than 0, made while idle
C14_Witness ==
  /\ inputDone
  /\ now = 0
  /\ ~isRecording
  /\ ~isPlaying
  /\ playedFrom = Undefined
  /\ time = 100

C16_PlayWithoutOutputChangesNothing ==
  [][(PressPlay /\ ~selOut) =>
       UNCHANGED <<notes, time, isRecording, isPlaying>>]_vars

(***************************************************************************)
(* Properties of the listener, the timer and the list a session walks.     *)
(***************************************************************************)
\* C17: after any sequence of record.start(source) and record.stop() calls
\* the message handler is attached to at most one source; it is attached to
\* no source but the one the recorder remembers, and start attaches it only
\* to a source other than that one, so never twice to the same source; a
\* start with a different source detaches the handler from the previous
\* source and leaves it on the new one alone.
C17_OneListener ==
  /\ [](Cardinality(listeners) <= 1 /\ listeners \subseteq {recMidiInput})
  /\ [][(RecordStart /\ recMidiInput' # recMidiInput) =>
          (recMidiInput \notin listeners' /\ listeners' = {recMidiInput'})]_vars

\* a recording has been started on in2 after an earlier recording, whose
\* hanging note is still in the map
C17_Witness ==
  /\ lastCall = "record.start"
  /\ isRecording
  /\ recNotes = <<>>
  /\ hangingNotes # <<>>
  /\ recMidiInput = "in2"
  /\ listeners = {"in2"}

\* C18: after record.stop() the handler is detached from the input, and
\* after playback.stop() the tick timer is cleared.
C18_StopReleasesListenerAndTimer ==
  [][/\ RecordStop => (listeners' = {})
     /\ PlaybackStop => (timers' = {})]_vars

\* C19: deleting or updating a note of the canonical list while a session is
\* active does not change the list the session walks.
C19_SessionListIndependent ==
  [][((DeleteNote \/ UpdateNote) /\ isPlaying) => (pbNotes' = pbNotes)]_vars

\* C20: a Note-Off received while recording for a pitch that has no hanging
\* note leaves the working note list and the hanging-note map unchanged and
\* raises no error.
C20_StrayNoteOffIgnored ==
  [][(/\ RecMidiEvent
      /\ LET midiMsg == events'[Len(events')].data
         IN /\ isNoteOffMessage(midiMsg)
            /\ getNoteFromNoteMessage(midiMsg) \notin DOMAIN hangingNotes)
     => (UNCHANGED <<recNotes, hangingNotes>> /\ ~threw')]_vars

\* the first event of a recording is a Note-Off: nothing was recorded,
\* nothing hangs and no error was raised
C20_Witness ==
  /\ lastCall = "midi"
  /\ isRecording
  /\ Len(events) = 1
  /\ isNoteOffMessage(events[1].data)
  /\ recNotes = <<>>
  /\ hangingNotes = <<>>
  /\ ~threw

(***************************************************************************)
(* Properties of message decoding and of loading.                          *)
(***************************************************************************)
\* status bytes around the Note-Off and Note-On ranges, on several channels
StatusSamples == {127, 128, 143, 144, 145, 159, 160, 176, 255}

VelocitySamples == {0, 1, 90, 127}

\* what the decoding contract calls Note-On and Note-Off
ContractNoteOn(midiMsg) ==
  midiMsg[1] \in 144..159 /\ midiMsg[3] # 0

ContractNoteOff(midiMsg) ==
  \/ midiMsg[1] \in 128..143
  \/ midiMsg[1] \in 144..159 /\ midiMsg[3] = 0

DecodedAsContract(midiMsg) ==
  /\ isNoteOnMessage(midiMsg) <=> ContractNoteOn(midiMsg)
  /\ isNoteOffMessage(midiMsg) <=> ContractNoteOff(midiMsg)
  /\ ~(isNoteOnMessage(midiMsg) /\ isNoteOffMessage(midiMsg))

\* C21: exactly the messages with status high nibble 1001 and a velocity
\* other than 0 are Note-On, exactly those with high nibble 1000, or with
\* high nibble 1001 and velocity 0, are Note-Off, and no message is both;
\* while recording, a Note-On with velocity 0 does what a Note-Off of the
\* same pitch and time does, and opens no note.
C21_DecodingAndRunningStatusOff ==
  [][RecMidiEvent =>
       LET midiEvent == events'[Len(events')]
           midiMsg == midiEvent.data
           asNoteOff == onMidiInputMessage(Enter("midi"),
                          [data |-> <<128, midiMsg[2], 0>>,
                           timeStamp |-> midiEvent.timeStamp])
       IN /\ DecodedAsContract(midiMsg)
          /\ \A status \in StatusSamples : \A pitch \in Pitches :
               \A velocity \in VelocitySamples :
                 DecodedAsContract(<<status, pitch, velocity>>)
          /\ (midiMsg[1] \in 144..159 /\ midiMsg[3] = 0) =>
               /\ recNotes' = asNoteOff.recNotes
               /\ hangingNotes' = asNoteOff.hangingNotes
               /\ threw' = asNoteOff.threw
               /\ Len(recNotes') = Len(recNotes)]_vars

\* a key was pressed and then released by a Note-On with velocity 0: the one
\* note of the recording has its end and nothing hangs
C21_Witness ==
  /\ lastCall = "midi"
  /\ Len(events) = 2
  /\ events[1].data = <<144, 60, 90>>
  /\ events[2].data = <<144, 60, 0>>
  /\ Len(recNotes) = 1
  /\ "end" \in DOMAIN recNotes[1]
  /\ hangingNotes = <<>>

\* the validation rules on one note of a file: every field is there, is a
\* number and is not negative
FieldsValid(obj) ==
  \A prop \in {"start", "end", "note", "velocity"} :
    /\ prop \in DOMAIN obj
    /\ obj[prop] # NotANumberValue
    /\ obj[prop] >= 0

\* the validation rules on a file
FileValid(file) ==
  /\ \A i \in 1..Len(file) : FieldsValid(file[i])
  /\ PositiveLength(file)
  /\ AscendingByStart(file)
  /\ NoSamePitchOverlap(file)

\* C22: loading a note file that violates a validation rule (a missing field,
\* a field that is not a number, a negative value, end <= start, a start
\* lower than the previous note's, two notes of one pitch overlapping) leaves
\* the canonical list and the cursor as they were; a file whose notes pass
\* every rule replaces the list and leaves the cursor.
C22_InvalidFileRejected ==
  [][\A file \in NoteFiles :
       (~inputDone /\ InputHandled(onNotesFileRead(Enter("index"), file))) =>
         IF FileValid(file)
         THEN notes' = file /\ time' = time
         ELSE notes' = notes /\ time' = time]_vars

\* a file has been loaded over a cursor that is not 0: the list is the
\* file's and the cursor is kept
C22_Witness ==
  /\ inputDone
  /\ ~isPlaying
  /\ ~isRecording
  /\ notes = <<NoteA, NoteB>>
  /\ time = 100
  /\ now = ClockStep

(***************************************************************************)
(* Properties of starting and stopping a recording.                        *)
(***************************************************************************)
\* C23: after stop-record has stopped a recording the cursor is a number
\* >= 0, and the recorded notes were shifted by the cursor as it was before
\* the clamp.
C23_CursorClampedAfterStopRecord ==
  [][(PressStopRecord /\ isRecording) =>
       LET stopped == recordStop(Enter("record.stop"))
       IN /\ IsNumber(time') /\ time' >= 0
          /\ notes' = MergedList(notes, ShiftedBy(stopped.retList, time))]_vars

\* C24: every record.start, also one issued while a recording is in progress
\* with notes still hanging, leaves the working note list and the
\* hanging-note map empty.
C24_StartResetsHangingNotes ==
  [][RecordStart => (recNotes' = <<>> /\ hangingNotes' = <<>>)]_vars

\* C25: record.start returns the start time it captured, so that after
\* Record the cursor is the cursor before Record (the position of the pause,
\* if Record paused a session) plus the recorder's start instant minus the
\* scheduler's start instant, a finite number.
C25_RecordReconcilesCursor ==
  [][(PressRecord /\ ~threw') =>
       LET before == onPressPause(Enter("index")).time
       IN /\ IsNumber(time')
          /\ time' = JsAdd(before, JsSub(recStartTime', now + SYNC_PAD))]_vars

(***************************************************************************)
(* Properties of the scheduler.                                            *)
(***************************************************************************)
\* the number of notes of l that start before startTime
StartingBefore(l, startTime) ==
  Cardinality({i \in 1..Len(l) : l[i].start < startTime})

\* a step of the scheduler specification that is a call of playback.play
PlayCalled == now' = now /\ lastCall' = "playback.play"

\* C26: play(notes, startTime) on a list sorted by start sets the scheduling
\* index to the smallest i with notes[i].start >= startTime, or to
\* notes.length when there is none, which on a sorted list is the number of
\* notes that start before startTime; no note with start < startTime is
\* emitted in the session, even if its end is after startTime.
C26_StartIndexAndNoEarlierNote ==
  /\ [][PlayCalled =>
          /\ AscendingByStart(pbNotes')
          /\ playbackIndex' = StartingBefore(pbNotes', playedFrom')
          /\ playbackIndex' < Len(pbNotes') =>
               pbNotes'[playbackIndex' + 1].start >= playedFrom']_vars
  /\ [](\A n \in emitted : n.start >= playedFrom)

\* a session started at 100 has emitted the note that starts at 100 and not
\* the note before it, which started at 0 and ends at 125
C26_Witness ==
  /\ isPlaying
  /\ playedFrom = 100
  /\ pbNotes = <<NoteLong, NoteB>>
  /\ playbackIndex = 2
  /\ emitted = {NoteB}

\* the end of the last note of the session's list, 0 for an empty list
LastNoteEnd == IF pbNotes = <<>> THEN 0 ELSE pbNotes[Len(pbNotes)].end

\* originTime + max(last note end, audio duration)
EffectiveEnd ==
  startPlaybackTime
    + JsMax(LastNoteEnd, IF playedAudio = Undefined THEN 0 ELSE playedAudio)

\* C27 as stated: a tick stops the session by itself only when every note of
\* the list has been emitted and the current time is at or past originTime +
\* max(last note end, audio duration); at every earlier tick the session
\* stays active and its stop callback is not invoked.
C27_TickStopsOnlyWhenAllEmitted ==
  [][PlaybackTick =>
       \/ /\ \A i \in 1..Len(pbNotes) : pbNotes[i] \in emitted'
          /\ now >= EffectiveEnd
       \/ isPlaying' /\ cbCalls' = 0]_vars

\* C27 amended: a tick stops the session by itself only when every note from
\* the start index of the session on has been emitted and the current time is
\* at or past originTime + max(last note end, audio duration); at every
\* earlier tick the session stays active and its stop callback is not
\* invoked.
C27_TickStopsOnlyAtEnd ==
  [][PlaybackTick =>
       \/ /\ \A i \in (StartingBefore(pbNotes, playedFrom) + 1)..Len(pbNotes) :
               pbNotes[i] \in emitted'
          /\ now >= EffectiveEnd
       \/ isPlaying' /\ cbCalls' = 0]_vars

\* a tick has ended a session that was started at 100 with a stop callback
\* and with audio: the note from 100 on was emitted, the note before it was
\* not
C27_Witness ==
  /\ lastCall = "tick"
  /\ ~isPlaying
  /\ cbCalls = 1
  /\ playedFrom = 100
  /\ playedAudio = 125
  /\ pbNotes = <<NoteLong, NoteB>>
  /\ emitted = {NoteB}

\* a session started by Play is running
PlaySessionActive ==
  isPlaying /\ stopCallback = "onPressPlay.stopCallback"

\* every note from the start index of the session on has been emitted
EmittedFromStartIndex ==
  \A i \in (FirstIndexFrom(pbNotes, playedFrom) + 1)..Len(pbNotes) :
    pbNotes[i] \in emitted

\* C28: if the clock advances, the ticks keep firing and no user action
\* intervenes, every playback session started by Play ends: all notes from
\* the start index on are emitted, isPlaying is false and the stop callback
\* has set the cursor to 0.
C28_SessionEventuallyEnds ==
  PlaySessionActive ~> (~isPlaying /\ time = 0 /\ EmittedFromStartIndex)

\* C29: for a session started by play at clock value now0 with start offset
\* startTime the origin is now0 - startTime + 50 and does not change during
\* the session; every note a tick emits is sent as a Note-On scheduled at
\* origin + note.start followed by a Note-Off scheduled at origin + note.end,
\* with the note's pitch and velocity.
C29_SendsAtOriginPlusNoteTimes ==
  [][/\ PlayCalled => (startPlaybackTime' = now - playedFrom' + 50)
     /\ (isPlaying /\ isPlaying' /\ ~PlayCalled) =>
          (startPlaybackTime' = startPlaybackTime)
     /\ PlaybackTick =>
          /\ Len(sent') = 2 * Cardinality(emitted' \ emitted)
          /\ \A k \in 1..(Len(sent') \div 2) :
               LET noteObj == pbNotes[playbackIndex + k]
               IN /\ noteObj \in emitted' \ emitted
                  /\ sent'[2 * k - 1] =
                       [bytes |-> <<144, noteObj.note, noteObj.velocity>>,
                        time |-> startPlaybackTime + noteObj.start]
                  /\ sent'[2 * k] =
                       [bytes |-> <<128, noteObj.note, 0>>,
                        time |-> startPlaybackTime + noteObj.end]]_vars

\* a tick of a session started at clock value 0 from offset 100 has sent the
\* note that starts at 100: Note-On at 50, Note-Off at 75
C29_Witness ==
  /\ lastCall = "tick"
  /\ playedFrom = 100
  /\ startPlaybackTime = 0 - 50
  /\ sent = <<[bytes |-> <<144, 62, 40>>, time |-> 50],
              [bytes |-> <<128, 62, 0>>, time |-> 75]>>

\* C30: at most one tick timer is registered at any time, and one is
\* registered exactly when isPlaying is true, the one playbackIntervalId
\* names; play() invoked while a session is active runs that session's stop
\* callback and leaves only the timer of the new session registered.
C30_OneTimerWhilePlaying ==
  /\ [](/\ Cardinality(timers) <= 1
        /\ isPlaying <=> (timers # {})
        /\ \A t \in timers : t.id = playbackIntervalId)
  /\ [][(PlayCalled /\ isPlaying) =>
          /\ cbCalls' = (IF stopCallback # NoCallback THEN 1 ELSE 0)
          /\ timers' = {[id |-> playbackIntervalId',
                         due |-> now + PLAYBACK_INTERVAL]}]_vars

\* play() has been called one instant into a session that had a stop
\* callback: the callback ran, and the one timer is that of the new session
C30_Witness ==
  /\ lastCall = "playback.play"
  /\ cbCalls = 1
  /\ isPlaying
  /\ now = ClockStep
  /\ timers = {[id |-> playbackIntervalId, due |-> now + PLAYBACK_INTERVAL]}
(***************************************************************************)
(* Properties of sessions: Record while playing, latency, callbacks.       *)
(***************************************************************************)
\* C31: Record invoked while playing pauses first: the active session is
\* stopped once, and the start offset handed to the zero-note session of the
\* recording is the position playback.stop returned at that moment.  When
\* record.start throws, the pause has happened and no session is started.
C31_RecordPausesFirst ==
  [][(PressRecord /\ isPlaying) =>
       LET stopped == playbackStop(Enter("index"))
       IN /\ cbCalls' = (IF stopCallback # NoCallback THEN 1 ELSE 0)
          /\ \A t \in timers' : t.id # playbackIntervalId \/ t.due > now
          /\ IF threw'
             THEN ~isPlaying' /\ time' = stopped.retNum
             ELSE /\ isPlaying' /\ pbNotes' = <<>>
                  /\ playedFrom' = stopped.retNum]_vars

\* Play at 0 from cursor 0, Record at 75: the session of the recording was
\* started from the position 25, which is neither 0 nor the offset playback
\* had been started from
C31_Witness ==
  /\ isRecording /\ isPlaying
  /\ stopCallback = NoCallback
  /\ pbNotes = <<>>
  /\ playedFrom = 25
  /\ now = 75

\* the instants of the Note-On sends among the sends of a handler: midi.sendNote
\* sends the Note-On first
NoteOnTimes(sends) ==
  {sends[i].time : i \in {k \in 1..Len(sends) : k % 2 = 1}}

\* C32: when the ticks of a session fire every 25 ms after play() and the
\* list is sorted by start, a tick hands a note to the MIDI output no later
\* than the Note-On time it schedules for it: now <= originTime + note.start.
C32_EmittedBeforeNoteOnTime ==
  [][(PlaybackTick /\ AscendingByStart(pbNotes)) =>
       /\ \A t \in NoteOnTimes(sent') : IsNumber(t) /\ now <= t
       /\ \A n \in emitted' \ emitted : now <= startPlaybackTime + n.start]_vars

\* the second tick of a session has emitted the note that starts 100 ms
\* into the list, 100 ms before its Note-On time
C32_Witness ==
  /\ lastCall = "tick"
  /\ isPlaying
  /\ pbNotes = <<NoteA, NoteB>>
  /\ playedFrom = 0
  /\ now = startPlaybackTime
  /\ Len(sent) = 2
  /\ sent[1].time = now + 100
  /\ emitted = {NoteA, NoteB}

\* C33: every note of the list record.stop() returns has end > start, for
\* any stream of MIDI events with non-decreasing time stamps, a Note-Off with
\* the time stamp of its Note-On and a stop right after a Note-On included.
\* Only the notes that have an end are looked at here: a note returned
\* without one is the subject of C5.
C33_ReturnedNotesHaveLength ==
  [][StopsRecording =>
       \A k \in 1..Len(retList') :
         "end" \in DOMAIN retList'[k] =>
           retList'[k].end > retList'[k].start]_vars

\* the step ends the active session: by stop(), by the tick after its end,
\* or by a play() that restarts
SessionEnds == isPlaying /\ (~isPlaying' \/ PlayCalled)

\* C34: the stop callback a session was started with is invoked exactly
\* once, in the call that ends the session (stop(), a restarting play(), or
\* the tick at the natural end), and at no other time: a call that ends no
\* session, or that ends a session started without a callback, invokes no
\* callback.
C34_CallbackOncePerSession ==
  [][(now' = now) =>
       cbCalls' = (IF SessionEnds /\ playedCallback # NoCallback
                   THEN 1 ELSE 0)]_vars

\* a play() without a callback has restarted a session that had one: the
\* callback of the old session ran once in that call
C34_Witness ==
  /\ lastCall = "playback.play"
  /\ cbCalls = 1
  /\ isPlaying
  /\ playedCallback = NoCallback

\* C35: in every state of the recorder, each entry of the hanging-note map
\* refers to an index inside the working note list, and the note there has
\* the pitch of the entry and no end yet.
C35_HangingEntriesPointAtOpenNotes ==
  \A pitch \in DOMAIN hangingNotes :
    /\ hangingNotes[pitch] \in 1..Len(recNotes)
    /\ recNotes[hangingNotes[pitch]].note = pitch
    /\ "end" \notin DOMAIN recNotes[hangingNotes[pitch]]

\* the index a tick has scheduled up to: the tick that ends the session
\* resets the index after it has reached the end of the list
ScheduledUpTo == IF isPlaying' THEN playbackIndex' ELSE Len(pbNotes)

\* C36: within a session the scheduling index never decreases; a tick sends
\* the notes from the old index up to the new one, each once and in list
\* order, so that no note of the list is sent twice in a session; once the
\* session is stopped no call sends a note until the next play().
C36_IndexMonotonicAndNoEmitAfterStop ==
  /\ [][(isPlaying /\ isPlaying' /\ ~PlayCalled) =>
          (playbackIndex' >= playbackIndex /\ pbNotes' = pbNotes)]_vars
  /\ [][PlaybackTick =>
          /\ ScheduledUpTo >= playbackIndex
          /\ Len(sent') = 2 * (ScheduledUpTo - playbackIndex)
          /\ \A k \in 1..(ScheduledUpTo - playbackIndex) :
               /\ sent'[2 * k - 1].bytes[2] = pbNotes[playbackIndex + k].note
               /\ sent'[2 * k - 1].time =
                    startPlaybackTime + pbNotes[playbackIndex + k].start]_vars
  /\ [][(now' = now /\ ~isPlaying) =>
          (sent' = <<>> /\ emitted' \in {emitted, {}})]_vars

\* the first tick of a session sent the first note and a later tick the
\* second, and the session has since been stopped with both notes emitted
C36_Witness ==
  /\ lastCall = "playback.stop"
  /\ ~isPlaying
  /\ playbackIndex = 0
  /\ pbNotes = <<NoteA, NoteB>>
  /\ playedFrom = 0
  /\ emitted = {NoteA, NoteB}
  /\ sent = <<>>
  /\ now = 2 * ClockStep

\* the transport requests other than Record, Play and stop-record
PauseStopOrSeek ==
  \/ PressPause
  \/ PressPauseKeepSpot
  \/ TogglePlayPause
  \/ TogglePlayPauseKeepSpot
  \/ PressStopPlay
  \/ SetTime

\* C37: while a recording is in progress, a pause, pause-keep-spot, play/pause
\* toggle, Stop or seek request that leaves the recording in progress leaves
\* the cursor unchanged.
C37_CursorFixedWhileRecording ==
  [][(isRecording /\ isRecording' /\ PauseStopOrSeek) => time' = time]_vars

\* C38: after Pause has stopped a session Play had started from a cursor
\* that is a number, the cursor is not smaller than that cursor and not
\* negative, however soon after Play the Pause comes.
C38_PauseNeverBeforeStart ==
  [][(/\ PressPause
      /\ isPlaying
      /\ stopCallback = "onPressPlay.stopCallback"
      /\ IsNumber(playedFrom)) =>
       (IsNumber(time') /\ time' >= playedFrom /\ time' >= 0)]_vars

\* C39: stop-record invoked while no recording is in progress leaves the
\* canonical note list, the cursor, isPlaying and the scheduling index
\* unchanged.
C39_StopRecordWhenIdleChangesNothing ==
  [][(PressStopRecord /\ ~isRecording) =>
       UNCHANGED <<notes, time, isPlaying, playbackIndex>>]_vars

(***************************************************************************)
(* Sounding time under mergeNotes (specification SpecMerge).               *)
(***************************************************************************)
\* the instants 0..MaxT at which a note of the pitch in l sounds: a note
\* covers the closed interval from its start to its end
InstantsCovered(l, pitch) ==
  {t \in 0..MaxT :
     \E i \in 1..Len(l) :
       l[i].note = pitch /\ l[i].start <= t /\ t <= l[i].end}

\* the unit spans (t, t + 1) throughout which a note of the pitch in l
\* sounds; with the instants they stand for every time point
SpansCovered(l, pitch) ==
  {t \in 0..(MaxT - 1) :
     \E i \in 1..Len(l) :
       l[i].note = pitch /\ l[i].start <= t /\ t + 1 <= l[i].end}

\* the notes of the array that are the caller's own objects of the argument
\* name hold what the caller put into them
OwnObjectsKept(name, l) ==
  \A i \in 1..Len(mOut.elems) :
    LET obj == mOut.elems[i].obj
    IN (obj[1] = "own" /\ obj[2] = name) =>
         NoteVal(mOut.elems[i]) = l[obj[3]]

\* C40: for valid oldNotes and newNotes and every pitch, the time points the
\* notes of that pitch in the result cover are those the notes of that
\* pitch in oldNotes or in newNotes cover; the arrays oldNotes and newNotes
\* and their note objects are as they were before the call.
C40_MergeKeepsSoundingTime ==
  mDone =>
    /\ \A pitch \in Pitches :
         /\ InstantsCovered(MergedVals, pitch) =
              InstantsCovered(mOld, pitch) \cup InstantsCovered(mNew, pitch)
         /\ SpansCovered(MergedVals, pitch) =
              SpansCovered(mOld, pitch) \cup SpansCovered(mNew, pitch)
    /\ mOut.arr \notin {"oldNotes", "newNotes"}
    /\ OwnObjectsKept("oldNotes", mOld)
    /\ OwnObjectsKept("newNotes", mNew)

\* a new note from 1 to 2 has bridged the old notes of its pitch from 0 to 1
\* and from 2 to 3: the result is one note from 0 to 3, and a new note of
\* the other pitch is in the result as the caller's own object
C40_Witness ==
  /\ mDone
  /\ Len(mOld) = 2 /\ Len(mNew) = 2
  /\ mOld[1].note = mOld[2].note
  /\ mOld[1].end = 1 /\ mOld[2].start = 2
  /\ \E i \in 1..2 : \E j \in 1..2 :
       /\ mNew[i].note = mOld[1].note /\ mNew[i].start = 1 /\ mNew[i].end = 2
       /\ mNew[j].note # mOld[1].note
  /\ Len(mOut.elems) = 2
  /\ \E k \in 1..2 :
       /\ MergedVals[k].start = 0 /\ MergedVals[k].end = 3
       /\ mOut.elems[3 - k].obj[1] = "own"

====
